---- MODULE Spec2Model ----
(***************************************************************************)
(* Simulation-based combinational equivalence checking                     *)
(* (include/mockturtle/algorithms/simulation_cec.hpp).                     *)
(*                                                                         *)
(* One behaviour is one call of simulation_cec(ntk1, ntk2, pst): the       *)
(* primary-input ceiling, the miter, the split plan, the round loop of     *)
(* simulation_cec_impl::run with its pattern generator and its output      *)
(* aggregator, and the publication of the statistics.                      *)
(*                                                                         *)
(* A network is held by what the checker reads of it: its number of        *)
(* primary inputs, its number of nodes and, per primary output, the        *)
(* Boolean function of the driving node (the set of its minterms) and the  *)
(* polarity of the output signal.  A truth table of split_var variables    *)
(* is the set of its bit positions that hold 1.                            *)
(***************************************************************************)
EXTENDS Integers, Sequences, FiniteSets, TLC

(* ------------------------------ bounds --------------------------------- *)

\* Networks of 1..MaxPis primary inputs are simulated bit by bit.
MaxPis == 2

\* Numbers of primary outputs of the networks drawn.
PoCounts == 1..2

\* The ceiling on the primary inputs, and the numbers of the split plan.
PiCeiling == 40
BudgetLog == 29
Overhead == 32
Margin == 3

Budget == 2^BudgetLog

\* Primary-input counts: the simulated ones, the ceiling and one above it.
PiCounts == (1..MaxPis) \cup {PiCeiling, PiCeiling + 1}

\* Node counts of the miter, one per regime of max_m_: 29, 3, 2, 1, 0 and
\* a count whose logarithm is below -1 (conversion out of range).
NodeCounts == {7, 16000000, 16400000, 16600000, 16700000, 16760000}

\* Rounds of one run that are followed (a run of more rounds is left there).
RoundCap == 2^MaxPis

(* --------------------------- 32-bit unsigned --------------------------- *)

\* A uint32_t is the pair <<high half, low half>> of its 16-bit halves.
Half == 2^16

U32Of(n) == <<n \div Half, n % Half>>

U32Max == <<Half - 1, Half - 1>>

\* 2^32 - k, the low 32 bits of the 64-bit integer -k (1 <= k < 2^16).
U32Neg(k) == <<Half - 1, Half - k>>

\* 2^e for e in 0..31.
U32Pow2(e) == IF e < 16 THEN <<0, 2^e>> ELSE <<2^(e - 16), 0>>

U32Less(a, b) == a[1] < b[1] \/ (a[1] = b[1] /\ a[2] < b[2])

\* What a conversion of an out-of-range double to uint32_t can leave:
\* the low 32 bits of the 64-bit conversion (low64), or the saturated value.
OutOfRange(low64) == {low64, U32Of(0), U32Max}

(* ------------------------------ networks ------------------------------- *)

\* The inputs a drawn function depends on: all of them up to MaxPis; the
\* networks at and above the ceiling are constant functions.
Support(n) == IF n <= MaxPis THEN n ELSE 0

Minterms(s) == 0..(2^s - 1)

\* Functions of the first output: constant 0, every single minterm (the
\* AND of all inputs among them) and the OR of all inputs.
Functions(s) ==
  {tt \in SUBSET Minterms(s) : Cardinality(tt) <= 1 \/ tt = Minterms(s) \ {0}}

\* Functions of the further outputs: constant 0 and the NOR of all inputs.
ExtraFunctions == {{}, {0}}

Networks ==
  UNION {
    {[num_pis |-> n, pos |-> p] :
       p \in {q \in [1..k -> SUBSET Minterms(Support(n))] :
                /\ q[1] \in Functions(Support(n))
                /\ \A j \in 2..k : q[j] \in ExtraFunctions}}
    : <<n, k>> \in PiCounts \X PoCounts}

NoMiter == [has_value |-> FALSE, num_pis |-> 0, size |-> 0, pos |-> <<>>]

NoStats == [null |-> TRUE, split_var |-> 0, rounds |-> U32Of(0)]

\* A statistics object the caller used in an earlier call.
StaleStats == [null |-> FALSE, split_var |-> 1, rounds |-> U32Of(1)]

(* ----------------------------- truth tables ---------------------------- *)

\* The bit positions of a truth table of split_var variables.
Bits(split_var) == 0..(2^split_var - 1)

\* kitty::create_nth_var: bit b holds the value of variable var in the
\* assignment b.
create_nth_var(split_var, var) ==
  {b \in Bits(split_var) : (b \div 2^var) % 2 = 1}

\* operator~ of a truth table of split_var variables.
Complement(split_var, tt) == Bits(split_var) \ tt

is_const0(tt) == tt = {}

(* ------------------------------ split plan ----------------------------- *)

RECURSIVE FloorLog2(_)
\* floor(log2(n)) for n >= 1.
FloorLog2(n) == IF n <= 1 THEN 0 ELSE 1 + FloorLog2(n \div 2)

\* max_m_: uint32_t(log(pow(2, 29) / nodes - 32) / log(2) + 3), the set of
\* values the conversion can leave.  With x = 2^29/nodes - 32 = (q - 32) + r/nodes:
\*   x >= 1       floor(log2(x)) = floor(log2(q - 32));
\*   1/8 <= x < 1 floor(log2(8x)) = floor(log2(8r div nodes));
\*   1/16 < x < 1/8  the double is in (-1, 0) and truncates to 0;
\*   0 < x <= 1/16   the double is <= -1: out of the range of uint32_t;
\*   x <= 0       log gives -inf or NaN: out of the range of uint32_t.
max_m_(nodes) ==
  LET q == Budget \div nodes
      r == Budget % nodes
  IN  IF q > Overhead
        THEN {U32Of(FloorLog2(q - Overhead) + Margin)}
      ELSE IF q = Overhead /\ 2^Margin * r >= nodes
        THEN {U32Of(FloorLog2((2^Margin * r) \div nodes))}
      ELSE IF q = Overhead /\ 2^(Margin + 1) * r > nodes
        THEN {U32Of(0)}
      ELSE IF q = Overhead /\ r > 0
        THEN OutOfRange(U32Neg(FloorLog2(nodes \div (2^Margin * r))))
      ELSE OutOfRange(U32Of(0))

\* split_var_, given the value max_m_ returned.
SplitVarGiven(N, max_m) == IF U32Less(max_m, U32Of(N)) THEN max_m[2] ELSE N

\* split_var_: the values it can return for a network of `nodes` nodes.
split_var_(N, nodes) == {SplitVarGiven(N, m) : m \in max_m_(nodes)}

\* rounds_: uint32_t(pow(2, N - split_var)); 2^32 and above is out of the
\* range of uint32_t, and the low 32 bits of the 64-bit conversion are 0.
rounds_(N, split_var) ==
  IF N - split_var <= 31
    THEN {U32Pow2(N - split_var)}
    ELSE OutOfRange(U32Of(0))

(* --------------------------- pattern generator ------------------------- *)

\* round_number >> count on a 32-bit int, round_number >= 0.  A count of 32
\* or more is undefined in C++; the shift instructions of x86-64, AArch64
\* and RISC-V take the count modulo 32.
ShiftRight(round_number, count) ==
  LET c == count % 32
  IN  IF c = 31 THEN 0 ELSE round_number \div 2^c

\* get_pattern_: tt itself for a split input and for round-bit 1, ~tt for
\* round-bit 0 (|| does not evaluate the shift for a split input).
get_pattern_(pi_number, round_number, tt, split_var) ==
  IF \/ pi_number <= split_var
     \/ ShiftRight(round_number, pi_number - split_var - 1) % 2 = 1
    THEN tt
    ELSE Complement(split_var, tt)

\* The body of the foreach_pi callback of run: the pattern of one input.
PiPattern(pi_number, round_number, split_var) ==
  LET tt == IF pi_number <= split_var
              THEN create_nth_var(split_var, pi_number - 1)
              ELSE {}
  IN  get_pattern_(pi_number, round_number, tt, split_var)

(* ------------------------------ aggregator ----------------------------- *)

\* Faulty variant of OutputTest: the polarity of the output is ignored.
OutputTestIgnoresPolarity(split_var, pattern, complemented) ==
  is_const0(pattern)

\* Faulty variant of OutputTest: the pattern is complemented for the
\* outputs that are not complemented.
OutputTestInverted(split_var, pattern, complemented) ==
  IF complemented
    THEN is_const0(pattern)
    ELSE is_const0(Complement(split_var, pattern))

\* The test is_equivalent_ applies to one primary output.
OutputTest(split_var, pattern, complemented) ==
  IF complemented
    THEN is_const0(Complement(split_var, pattern))
    ELSE is_const0(pattern)

\* Faulty variant of FoldVerdict: = in place of &=.
FoldVerdictOverwrites(verdict, test) == test

\* is_equivalent &= <test>.
FoldVerdict(verdict, test) == verdict /\ test

(* ------------------------------ entry point --------------------------- *)

\* Faulty variant of OverCeiling: >= in place of >.
OverCeilingAtCeiling(num_pis) == num_pis >= PiCeiling

\* ntk1.num_pis() > 40.
OverCeiling(num_pis) == num_pis > PiCeiling

\* round_number < _st.rounds, the int converted to unsigned.
LoopContinues(round_number, rounds) == U32Less(U32Of(round_number), rounds)

\* std::optional<bool> of the bool result.
Verdict(result) == IF result THEN "Equivalent" ELSE "NotEquivalent"

(* --------------------- collaborators (from the spec) ------------------- *)

\* The miter of two networks: none unless they have the same numbers of
\* inputs and outputs; its output j is the XOR of the two outputs j.
Compatible(n1, n2) ==
  n1.num_pis = n2.num_pis /\ Len(n1.pos) = Len(n2.pos)

Xor(f, g) == (f \ g) \cup (g \ f)

\* The miters the builder can return: any polarity of each output signal
\* (the driving node then computes the XOR or its complement) and any node
\* count whose split plan stays within MaxPis split variables.
Miters(n1, n2) ==
  LET s == Support(n1.num_pis)
      k == Len(n1.pos)
  IN  {[has_value |-> TRUE, num_pis |-> n1.num_pis, size |-> sz,
        pos |-> [j \in 1..k |->
                   [tt |-> IF c[j]
                             THEN Minterms(s) \ Xor(n1.pos[j], n2.pos[j])
                             ELSE Xor(n1.pos[j], n2.pos[j]),
                    complemented |-> c[j]]]] :
         <<sz, c>> \in
           {n \in NodeCounts : \A v \in split_var_(n1.num_pis, n) : v <= MaxPis}
           \X [1..k -> BOOLEAN]}

RECURSIVE MintermAt(_, _, _)
\* The assignment of inputs 1..s that bit position b of the patterns holds.
MintermAt(pats, b, s) ==
  IF s = 0 THEN 0
  ELSE MintermAt(pats, b, s - 1) + (IF b \in pats[s] THEN 2^(s - 1) ELSE 0)

\* simulate_nodes: the pattern of the node driving each output, recomputed
\* from the patterns of the primary inputs; the driver of output j is node
\* num_pis + j.
Simulated(miter, pats, split_var) ==
  LET n == miter.num_pis
  IN  [v \in (DOMAIN pats) \cup {n + j : j \in 1..Len(miter.pos)} |->
         IF v <= n
           THEN pats[v]
           ELSE {b \in Bits(split_var) :
                   MintermAt(pats, b, Support(n)) \in miter.pos[v - n].tt}]

(* -------------------------------- state -------------------------------- *)

VARIABLES
  ntk1, ntk2,      \* the two networks of the call
  pst,             \* the caller's statistics object (null: no object)
  pc,              \* where the call stands
  ret,             \* the optional<bool> returned: Equivalent, NotEquivalent, Unknown
  st, result,      \* the locals of simulation_cec
  ntk_miter,       \* the optional miter
  is_equivalent,   \* the running verdict of run
  round_number,    \* the loop variable of run
  pi_cursor,       \* the primary input foreach_pi visits next
  po_cursor,       \* the primary output foreach_po visits next
  patterns,        \* the pattern map: node -> truth table
  simCalls,        \* observer: calls of simulate_nodes so far
  aggCalls,        \* observer: calls of is_equivalent_ so far
  piWrites,        \* observer: input patterns written since the last propagation
  log,             \* observer: per propagation, the round, the inputs beyond
                   \*   split_var that hold all-one, and the verdict so far
  fold,            \* observer: the last output tested and the verdict around it
  everFailed       \* observer: some output signal tested so far was not all-zero

vars ==
  <<ntk1, ntk2, pst, pc, ret, st, result, ntk_miter, is_equivalent,
    round_number, pi_cursor, po_cursor, patterns, simCalls, aggCalls,
    piWrites, log, fold, everFailed>>

NoFold ==
  [valid |-> FALSE, round |-> 0, po |-> 0, pattern |-> {},
   complemented |-> FALSE, before |-> TRUE, after |-> TRUE]

\* The value of an output signal is 0 in every bit: the bit of the driving
\* node equals the polarity of the signal.
SignalZero(split_var, pattern, complemented) ==
  \A b \in Bits(split_var) : (b \in pattern) = complemented

\* The call: any two networks, with or without a statistics object; the
\* locals st and result as simulation_cec declares them.
Init ==
  /\ ntk1 \in Networks
  /\ ntk2 \in Networks
  /\ pst \in {NoStats, StaleStats}
  /\ pc = "entry"
  /\ ret = "pending"
  /\ st = [split_var |-> 0, rounds |-> U32Of(0)]
  /\ result = FALSE
  /\ ntk_miter = NoMiter
  /\ is_equivalent = TRUE
  /\ round_number = 0
  /\ pi_cursor = 0
  /\ po_cursor = 0
  /\ patterns = <<>>
  /\ simCalls = 0
  /\ aggCalls = 0
  /\ piWrites = 0
  /\ log = <<>>
  /\ fold = NoFold
  /\ everFailed = FALSE

runVars ==
  <<is_equivalent, round_number, pi_cursor, po_cursor, patterns, simCalls,
    aggCalls, piWrites, log, fold, everFailed>>

(* ------------------------------- actions ------------------------------- *)

\* if ( ntk1.num_pis() > 40 ) return std::nullopt;
CeilingExceeded ==
  /\ pc = "entry"
  /\ OverCeiling(ntk1.num_pis)
  /\ ret' = "Unknown"
  /\ pc' = "done"
  /\ UNCHANGED <<ntk1, ntk2, pst, st, result, ntk_miter, runVars>>

CeilingPassed ==
  /\ pc = "entry"
  /\ ~OverCeiling(ntk1.num_pis)
  /\ pc' = "miter"
  /\ UNCHANGED <<ntk1, ntk2, pst, ret, st, result, ntk_miter, runVars>>

\* auto ntk_miter = miter<Ntk>( ntk1, ntk2 ), with a value.
MiterBuilt ==
  /\ pc = "miter"
  /\ Compatible(ntk1, ntk2)
  /\ ntk_miter' \in Miters(ntk1, ntk2)
  /\ pc' = "run"
  /\ UNCHANGED <<ntk1, ntk2, pst, ret, st, result, runVars>>

\* The miter has no value: run is skipped.
MiterFailed ==
  /\ pc = "miter"
  /\ ~Compatible(ntk1, ntk2)
  /\ ntk_miter' = NoMiter
  /\ pc' = "publish"
  /\ UNCHANGED <<ntk1, ntk2, pst, ret, st, result, runVars>>

\* run, up to the loop: the verdict, the split plan, the empty pattern map.
RunStart ==
  /\ pc = "run"
  /\ is_equivalent' = TRUE
  /\ \E sv \in split_var_(ntk_miter.num_pis, ntk_miter.size) :
       \E r \in rounds_(ntk_miter.num_pis, sv) :
         st' = [split_var |-> sv, rounds |-> r]
  /\ patterns' = <<>>
  /\ round_number' = 0
  /\ pc' = "loop"
  /\ UNCHANGED <<ntk1, ntk2, pst, ret, result, ntk_miter, pi_cursor,
                 po_cursor, simCalls, aggCalls, piWrites, log, fold,
                 everFailed>>

\* The loop condition holds: the round begins with foreach_pi.
RoundBegin ==
  /\ pc = "loop"
  /\ LoopContinues(round_number, st.rounds)
  /\ round_number < RoundCap
  /\ pi_cursor' = 1
  /\ pc' = "pi"
  /\ UNCHANGED <<ntk1, ntk2, pst, ret, st, result, ntk_miter, is_equivalent,
                 round_number, po_cursor, patterns, simCalls, aggCalls,
                 piWrites, log, fold, everFailed>>

\* Faulty variant of RunReturn: the loop also ends once the verdict is false.
RunReturnEarly ==
  /\ pc = "loop"
  /\ (~LoopContinues(round_number, st.rounds) \/ ~is_equivalent)
  /\ result' = is_equivalent
  /\ pc' = "publish"
  /\ UNCHANGED <<ntk1, ntk2, pst, ret, st, ntk_miter, runVars>>

\* The loop condition fails: run returns is_equivalent, and simulation_cec
\* keeps it in result.
RunReturn ==
  /\ pc = "loop"
  /\ ~LoopContinues(round_number, st.rounds)
  /\ result' = is_equivalent
  /\ pc' = "publish"
  /\ UNCHANGED <<ntk1, ntk2, pst, ret, st, ntk_miter, runVars>>

\* One call of the foreach_pi callback: the pattern of input pi_cursor.
UpdatePattern ==
  /\ pc = "pi"
  /\ pi_cursor <= ntk_miter.num_pis
  /\ patterns' =
       [v \in (DOMAIN patterns) \cup {pi_cursor} |->
          IF v = pi_cursor
            THEN PiPattern(pi_cursor, round_number, st.split_var)
            ELSE patterns[v]]
  /\ piWrites' = piWrites + 1
  /\ pi_cursor' = pi_cursor + 1
  /\ pc' = IF pi_cursor = ntk_miter.num_pis THEN "simulate" ELSE "pi"
  /\ UNCHANGED <<ntk1, ntk2, pst, ret, st, result, ntk_miter, is_equivalent,
                 round_number, po_cursor, simCalls, aggCalls, log, fold,
                 everFailed>>

\* simulate_nodes( _ntk, patterns, sim ).
Simulate ==
  /\ pc = "simulate"
  /\ patterns' = Simulated(ntk_miter, patterns, st.split_var)
  /\ simCalls' = simCalls + 1
  /\ piWrites' = 0
  /\ log' =
       Append(log,
              [round |-> round_number,
               ones |-> {v \in (st.split_var + 1)..ntk_miter.num_pis :
                           patterns[v] = Bits(st.split_var)},
               verdict |-> is_equivalent])
  /\ pc' = "aggregate"
  /\ UNCHANGED <<ntk1, ntk2, pst, ret, st, result, ntk_miter, is_equivalent,
                 round_number, pi_cursor, po_cursor, aggCalls, fold,
                 everFailed>>

\* is_equivalent_( is_equivalent, _ntk, patterns ) is called.
Aggregate ==
  /\ pc = "aggregate"
  /\ aggCalls' = aggCalls + 1
  /\ po_cursor' = 1
  /\ pc' = "po"
  /\ UNCHANGED <<ntk1, ntk2, pst, ret, st, result, ntk_miter, is_equivalent,
                 round_number, pi_cursor, patterns, simCalls, piWrites, log,
                 fold, everFailed>>

\* One call of the foreach_po callback of is_equivalent_.
FoldOutput ==
  /\ pc = "po"
  /\ po_cursor <= Len(ntk_miter.pos)
  /\ LET f == ntk_miter.pos[po_cursor]
         pattern == patterns[ntk_miter.num_pis + po_cursor]
         after == FoldVerdict(is_equivalent,
                              OutputTest(st.split_var, pattern, f.complemented))
     IN  /\ is_equivalent' = after
         /\ fold' = [valid |-> TRUE, round |-> round_number, po |-> po_cursor,
                     pattern |-> pattern, complemented |-> f.complemented,
                     before |-> is_equivalent, after |-> after]
         /\ everFailed' =
              (everFailed \/ ~SignalZero(st.split_var, pattern, f.complemented))
  /\ po_cursor' = po_cursor + 1
  /\ pc' = IF po_cursor = Len(ntk_miter.pos) THEN "po_end" ELSE "po"
  /\ UNCHANGED <<ntk1, ntk2, pst, ret, st, result, ntk_miter, round_number,
                 pi_cursor, patterns, simCalls, aggCalls, piWrites, log>>

\* is_equivalent_ is declared bool and ends without a return statement,
\* which is undefined: either control comes back to run (the value is not
\* used) and the loop steps to the next round, ...
AggregatorReturns ==
  /\ pc = "po_end"
  /\ round_number' = round_number + 1
  /\ pc' = "loop"
  /\ UNCHANGED <<ntk1, ntk2, pst, ret, st, result, ntk_miter, is_equivalent,
                 pi_cursor, po_cursor, patterns, simCalls, aggCalls, piWrites,
                 log, fold, everFailed>>

\* ... or the build ends the function in a trap and the call never returns.
AggregatorTraps ==
  /\ pc = "po_end"
  /\ pc' = "trap"
  /\ UNCHANGED <<ntk1, ntk2, pst, ret, st, result, ntk_miter, runVars>>

\* Faulty variant of Publish: no miter is reported as Unknown.
PublishUnknownWithoutMiter ==
  /\ pc = "publish"
  /\ pst' = IF pst.null
              THEN pst
              ELSE [null |-> FALSE, split_var |-> st.split_var,
                    rounds |-> st.rounds]
  /\ ret' = IF ntk_miter.has_value THEN Verdict(result) ELSE "Unknown"
  /\ pc' = "done"
  /\ UNCHANGED <<ntk1, ntk2, st, result, ntk_miter, runVars>>

\* if ( pst ) *pst = st; return result;
Publish ==
  /\ pc = "publish"
  /\ pst' = IF pst.null
              THEN pst
              ELSE [null |-> FALSE, split_var |-> st.split_var,
                    rounds |-> st.rounds]
  /\ ret' = Verdict(result)
  /\ pc' = "done"
  /\ UNCHANGED <<ntk1, ntk2, st, result, ntk_miter, runVars>>

Next ==
  \/ CeilingExceeded
  \/ CeilingPassed
  \/ MiterBuilt
  \/ MiterFailed
  \/ RunStart
  \/ RoundBegin
  \/ RunReturn
  \/ UpdatePattern
  \/ Simulate
  \/ Aggregate
  \/ FoldOutput
  \/ AggregatorReturns
  \/ AggregatorTraps
  \/ Publish

Spec == Init /\ [][Next]_vars

(* ------------------------------ properties ----------------------------- *)

\* The run of the round loop is over: run has returned.
RunReturned == ntk_miter.has_value /\ pc \in {"publish", "done"}

\* The split plan has been computed.
Planned ==
  ntk_miter.has_value /\ pc \notin {"entry", "miter", "run"}

\* The two networks give the same outputs on every input assignment.
SameFunctions == ntk1.pos = ntk2.pos

\* The inputs beyond split_var, which the rounds enumerate.
Enumerated == (st.split_var + 1)..ntk_miter.num_pis

\* The plan is in the range where its arithmetic is exact.
PlanExact ==
  /\ 0 < st.split_var
  /\ st.split_var <= ntk_miter.num_pis
  /\ ntk_miter.num_pis - st.split_var <= 31
  /\ st.rounds = U32Pow2(ntk_miter.num_pis - st.split_var)

\* C1: for two networks of the same N <= 40 inputs whose miter is built,
\* the call returns Equivalent exactly when the two networks give the same
\* outputs on every assignment (so AND against OR gives NotEquivalent).
C1_EquivalentIffSameFunctions ==
  (pc = "done" /\ ntk1.num_pis <= PiCeiling /\ ntk_miter.has_value)
    => (ret = "Equivalent" <=> SameFunctions)

\* C2: when run has returned, the rounds 0 .. rounds-1 have given the inputs
\* beyond split_var every one of their assignments exactly once.
C2_RoundsEnumerateEachAssignmentOnce ==
  RunReturned =>
    \A a \in SUBSET Enumerated :
      Cardinality({i \in 1..Len(log) : log[i].ones = a}) = 1

\* C3: the split plan has 0 < split_var <= num_pis and
\* rounds = 2^(num_pis - split_var).
C3_SplitPlanBounds == Planned => PlanExact

\* C4: a call with a statistics object leaves the split plan in it on
\* every return, Unknown included.
C4_StatsPublishedOnEveryReturn ==
  (pc = "done" /\ ~pst.null)
    => (pst.split_var = st.split_var /\ pst.rounds = st.rounds)

\* The stored number of rounds is the exact power of two.
RoundsExact ==
  /\ ntk_miter.num_pis - st.split_var <= 31
  /\ st.rounds = U32Pow2(ntk_miter.num_pis - st.split_var)

\* Where the number of rounds is exact, the verdict is the right one.
ExactRoundsGiveRightVerdict ==
  (pc = "done" /\ ntk_miter.has_value /\ RoundsExact)
    => (ret = "Equivalent" <=> SameFunctions)

\* Where the number of rounds is exact, the rounds enumerate every
\* assignment of the inputs beyond split_var exactly once.
ExactRoundsEnumerateOnce ==
  (RunReturned /\ RoundsExact) =>
    \A a \in SUBSET Enumerated :
      Cardinality({i \in 1..Len(log) : log[i].ones = a}) = 1

\* The split plan never exceeds the number of inputs.
SplitVarAtMostInputs == Planned => st.split_var <= ntk_miter.num_pis

\* C5: a first network of more than 40 inputs gives Unknown whatever the
\* second network is, with no miter built and no round run; a first network
\* of at most 40 inputs never gives Unknown.
C5_CeilingGivesUnknown ==
  /\ ntk1.num_pis > PiCeiling =>
       /\ pc \in {"entry", "done"}
       /\ ~ntk_miter.has_value
       /\ simCalls = 0 /\ aggCalls = 0 /\ piWrites = 0
       /\ pc = "done" => ret = "Unknown"
  /\ ntk1.num_pis <= PiCeiling => ret # "Unknown"

\* A call with 41 inputs against a network of another size has returned Unknown.
C5_Witness ==
  /\ pc = "done"
  /\ ntk1.num_pis = PiCeiling + 1
  /\ ntk2.num_pis # ntk1.num_pis
  /\ ret = "Unknown"

\* C6: with at most 40 inputs and no miter, the call returns NotEquivalent,
\* and it has computed no split plan and run no round.
C6_NoMiterGivesNotEquivalent ==
  (pc = "done" /\ ntk1.num_pis <= PiCeiling /\ ~ntk_miter.has_value)
    => /\ ret = "NotEquivalent"
       /\ st = [split_var |-> 0, rounds |-> U32Of(0)]
       /\ simCalls = 0 /\ aggCalls = 0 /\ piWrites = 0
       /\ log = <<>> /\ patterns = <<>>

\* A call on two networks of 40 and of fewer inputs has returned NotEquivalent.
C6_Witness ==
  /\ pc = "done"
  /\ ntk1.num_pis = PiCeiling
  /\ ntk2.num_pis < PiCeiling
  /\ ~ntk_miter.has_value
  /\ ret = "NotEquivalent"

\* C7: a network of at most 40 inputs against an identical copy: every
\* output tested passes, the verdict is never lowered, and the call returns
\* Equivalent.
C7_SelfEquivalence ==
  (ntk1 = ntk2 /\ ntk1.num_pis <= PiCeiling)
    => /\ is_equivalent
       /\ fold.valid => fold.after
       /\ pc = "done" => ret = "Equivalent"

\* An identical pair has returned Equivalent after several rounds, the last
\* output tested being a complemented one.
C7_Witness ==
  /\ pc = "done"
  /\ ntk1 = ntk2
  /\ ret = "Equivalent"
  /\ simCalls >= 2
  /\ fold.valid /\ fold.complemented

\* C8: the verdict after an output is tested is the verdict before it and
\* the value of the output signal (the bit of the node, inverted for a
\* complemented output) being 0 in every bit.
C8_OutputTestedOnSignalValue ==
  fold.valid =>
    fold.after =
      (fold.before /\ SignalZero(st.split_var, fold.pattern, fold.complemented))

\* A complemented output over an all-zero node pattern has lowered the verdict.
C8_Witness ==
  /\ fold.valid
  /\ fold.complemented
  /\ fold.pattern = {}
  /\ fold.before
  /\ ~fold.after

\* C9: the rounds run in the order 0, 1, ...; in each round all the input
\* patterns are written, then one propagation, then one aggregation; and run
\* returns only after round rounds-1, whatever the verdict.
C9_EveryRoundRunsInOrder ==
  /\ Len(log) = simCalls
  /\ \A i \in 1..Len(log) : log[i].round = i - 1
  /\ pc = "pi" => piWrites = pi_cursor - 1
  /\ pc = "simulate" =>
       /\ piWrites = ntk_miter.num_pis
       /\ 1..ntk_miter.num_pis \subseteq DOMAIN patterns
  /\ pc \in {"loop", "aggregate", "po", "po_end"} => piWrites = 0
  /\ pc \in {"loop", "pi", "simulate"} =>
       simCalls = round_number /\ aggCalls = round_number
  /\ pc = "aggregate" =>
       simCalls = round_number + 1 /\ aggCalls = round_number
  /\ pc \in {"po", "po_end", "trap"} =>
       simCalls = round_number + 1 /\ aggCalls = round_number + 1
  /\ RunReturned =>
       /\ U32Of(round_number) = st.rounds
       /\ simCalls = round_number
       /\ aggCalls = round_number

\* A run of four rounds has returned although the verdict was already false
\* when the second round was propagated.
C9_Witness ==
  /\ pc = "done"
  /\ Len(log) = 4
  /\ ~log[2].verdict

\* C10: the verdict is true until an output signal tested is not all-zero
\* and false from then on, and run returns it.
C10_VerdictOnlyFalls ==
  /\ is_equivalent = ~everFailed
  /\ RunReturned => result = ~everFailed
  /\ (RunReturned /\ pc = "done") => ret = Verdict(~everFailed)

\* The call has returned NotEquivalent; the verdict was false before the
\* last round, and the last output tested passed.
C10_Witness ==
  /\ pc = "done"
  /\ ret = "NotEquivalent"
  /\ Len(log) >= 2
  /\ ~log[Len(log)].verdict
  /\ ~fold.before
  /\ SignalZero(st.split_var, fold.pattern, fold.complemented)

====
